---- MODULE Spec2Model ----
(***************************************************************************)
(* Model of character_quiz_app.py: a Streamlit flash-card quiz.            *)
(*                                                                         *)
(* The script is re-executed top to bottom on every user event.  The       *)
(* model follows the script section by section (pc), keeps                 *)
(* st.session_state as one variable per key plus the set `keys` of the     *)
(* keys that are present, and measures time in ticks of 0.1 s.             *)
(* Strings are sequences of one-character strings, so that lower(),        *)
(* replace() and the iteration over card["english"] are computed.         *)
(***************************************************************************)
EXTENDS Integers, Sequences, FiniteSets, TLC

(* ------------------------------ bounds --------------------------------- *)
\* cards per chapter in the generated card stores
MaxPerChapter == 1
\* length of the --chapters list
MaxSel == 2
\* latest clock value (ticks of 0.1 s) at which an answer may still be committed
MaxTime == 32
\* extra ticks time.sleep may take beyond the requested duration
SleepSlack == 1
\* longest string handed to normalize on its own
MaxLen == 3
\* most polls of the reveal timeout after the system clock was set back
MaxPolls == 2

(* --------------------------- program constants ------------------------- *)
BRIGHT_GREEN == "#00c853"
BRIGHT_RED == "#ff1744"
WHITE == "#FFFFFF"
\* time.sleep(1.4) in evaluate_answer, in ticks
FLASH_TICKS == 14
\* `elapsed >= 1` in the auto-advance section, in ticks
REVEAL_TICKS == 10
\* time.sleep(0.1) of the polling branch, in ticks
POLL_TICKS == 1

(* ------------------------------- strings ------------------------------- *)
SeqToSet(s) == {s[i] : i \in 1..Len(s)}

\* the multiset of the items of a list
bag_of(s) == [x \in SeqToSet(s) |-> Cardinality({i \in 1..Len(s) : s[i] = x})]

RECURSIVE FlattenSeq(_)
FlattenSeq(ss) == IF ss = <<>> THEN <<>> ELSE Head(ss) \o FlattenSeq(Tail(ss))

\* str.lower() on one character of the model's alphabet
LowerChar(c) ==
  CASE c = "D" -> "d"
    [] c = "O" -> "o"
    [] c = "G" -> "g"
    [] c = "C" -> "c"
    [] OTHER -> c

lower(s) == [i \in 1..Len(s) |-> LowerChar(s[i])]

\* str.replace(old, ""), old a single character
RECURSIVE remove_char(_, _)
remove_char(s, old) ==
  IF s = <<>> THEN <<>>
  ELSE IF Head(s) = old THEN remove_char(Tail(s), old)
       ELSE <<Head(s)>> \o remove_char(Tail(s), old)

\* str.replace(old, "", 1): only the first occurrence is removed
remove_first(s, old) ==
  IF \E i \in 1..Len(s) : s[i] = old
  THEN LET i == CHOOSE i \in 1..Len(s) : s[i] = old /\ \A j \in 1..(i - 1) : s[j] # old
       IN SubSeq(s, 1, i - 1) \o SubSeq(s, i + 1, Len(s))
  ELSE s

\* normalize with replace(" ", "", 1)
normalize_first_space_only(ans) == remove_first(lower(ans), " ")

\* normalize: ans.lower().replace(" ", "")
normalize(ans) == remove_char(lower(ans), " ")

(* ------------------------------ card store ----------------------------- *)
\* f"chapter{n}"
chapter_key(n) == "chapter" \o ToString(n)

\* chapter numbers the generated stores may use
ChapterNums == {2, 10}

StoreKeys == {chapter_key(n) : n \in ChapterNums}

\* int(k.replace("chapter", "")) for the keys of the store
chapter_num(k) == CHOOSE n \in ChapterNums : chapter_key(n) = k

\* A record of the store: english is a list of strings (kind "list") or a
\* single string (kind "str"), held as a one-element sequence.
Card(h, kind, english) == [hanzi |-> h, kind |-> kind, english |-> english]

CardPool(k) ==
  IF k = chapter_key(2)
  THEN << Card("gou3", "list", << <<"D","o","g">>, <<"p","u","p">> >>),
          Card("quan3", "list", << <<"d","o","g">> >>),
          Card("mao1", "list", << <<"c","a","t">> >>) >>
  ELSE << Card("mao1", "str", << <<"c","a","t">> >>) >>

\* json.load(f): every store with chapters among StoreKeys, each holding
\* up to MaxPerChapter of its cards (a chapter may be present and empty)
Stores ==
  { c \in UNION { [K -> 0..MaxPerChapter] : K \in SUBSET StoreKeys } :
      \A k \in DOMAIN c : c[k] <= Len(CardPool(k)) }

StoreData(counts) ==
  [k \in DOMAIN counts |-> SubSeq(CardPool(k), 1, counts[k])]

\* chapter numbers typed on the command line; chapter 3 is in no store
CliNums == {2, 3, 10}

\* cli_args.chapters: None (modelled <<>>) or a non-empty list of integers
CliChoices ==
  {<<>>} \cup UNION { [1..n -> CliNums] : n \in 1..MaxSel }

(* ------------------------------ Deck Loader ---------------------------- *)
\* sorted(keys, key=...): the keys in ascending order of rank
RECURSIVE sorted_by(_, _)
sorted_by(K, rank) ==
  IF K = {} THEN <<>>
  ELSE LET m == CHOOSE k \in K : \A j \in K : rank[k] <= rank[j]
       IN <<m>> \o sorted_by(K \ {m}, rank)

\* rank of a key in string order: "chapter10" < "chapter2"
lex_rank(k) == IF k = chapter_key(10) THEN 1 ELSE IF k = chapter_key(2) THEN 2 ELSE 3

all_chapters_lexicographic(data) == sorted_by(DOMAIN data, [k \in DOMAIN data |-> lex_rank(k)])

\* sorted(data.keys(), key=lambda k: int(k.replace("chapter", "")))
all_chapters(data) == sorted_by(DOMAIN data, [k \in DOMAIN data |-> chapter_num(k)])

\* [f"chapter{n}" for n in cli_args.chapters if f"chapter{n}" in data]
selected_chapters(data, chapters) ==
  LET keep(n) == IF chapter_key(n) \in DOMAIN data THEN <<chapter_key(n)>> ELSE <<>>
  IN FlattenSeq([i \in 1..Len(chapters) |-> keep(chapters[i])])

\* the list handed to build_deck by load_deck
deck_chapters(data, chapters) ==
  IF chapters # <<>>
  THEN IF selected_chapters(data, chapters) = <<>>
       THEN all_chapters(data)
       ELSE selected_chapters(data, chapters)
  ELSE all_chapters(data)

\* build_deck before the shuffle: deck.extend(data[ch]) for ch in selected
extend_all(data, selected) ==
  FlattenSeq([i \in 1..Len(selected) |-> data[selected[i]]])

\* random.shuffle: the orders the generator is taken to produce are every
\* rotation of the list and of its reverse, which is every order of a list
\* of up to three cards
shuffle(deck) ==
  LET n == Len(deck)
      rotated(k) == [i \in 1..n |-> deck[((i + k - 1) % n) + 1]]
      reversed(k) == [i \in 1..n |-> deck[((n - i + k) % n) + 1]]
  IN IF n = 0 THEN {<<>>}
     ELSE {rotated(k) : k \in 0..(n - 1)} \cup {reversed(k) : k \in 0..(n - 1)}

build_deck(data, selected) == shuffle(extend_all(data, selected))

(* ------------------------- answer evaluation --------------------------- *)
\* `for m in card["english"]`: the items of a list, the characters of a string
english_items(card) ==
  IF card.kind = "list" THEN card.english
  ELSE [i \in 1..Len(card.english[1]) |-> <<card.english[1][i]>>]

\* meaning_norms = [normalize(m) for m in card["english"]]
meaning_norms(card) ==
  [i \in 1..Len(english_items(card)) |-> normalize(english_items(card)[i])]

\* is_correct = answer_norm in meaning_norms
is_correct(answer, card) == normalize(answer) \in SeqToSet(meaning_norms(card))

\* what the user may type: "dog", "D og", "cat", "c"
Answers == { <<"d","o","g">>, <<"D"," ","o","g">>, <<"c","a","t">>, <<"c">> }

(* ------------------------------- state --------------------------------- *)
VARIABLES
  data,             \* the card store (json.load)
  chapters,         \* cli_args.chapters
  cache,            \* st.cache_data entry of load_deck: <<>> or <<deck>>
  selected,         \* the chapter list load_deck handed to build_deck
  keys,             \* the keys present in st.session_state
  deck, idx, score, answer, response_checked, correct, feedback, timer_start,
  now,              \* time.time(), in ticks
  pc,               \* section of the script being executed, or "idle"
  stop_clicked,     \* the Stop button's trigger value for the current run
  restart_clicked,  \* the Restart button's trigger value for the current run
  widgets,          \* widgets on the page
  text_disabled,    \* `disabled` of the text input on the page
  box,              \* last render(char, color)
  report,           \* the st.success message of the End quiz section
  error,            \* uncaught exception shown by the last run
  prev_deck,        \* history: the cards (as a bag) of the session deleted by the last Restart
  queued_answer,    \* a value committed in the text input while the callback sleeps
  norm_in,          \* argument of a call of normalize on its own
  norm_out,         \* normalize(norm_in)
  norm_twice        \* normalize(normalize(norm_in))

session == <<keys, deck, idx, score, answer, response_checked, correct, feedback, timer_start>>
loader == <<data, chapters, cache, selected>>
page == <<widgets, text_disabled, box, report, error>>
norm == <<norm_in, norm_out, norm_twice>>
vars == <<loader, session, now, pc, stop_clicked, restart_clicked, page, prev_deck,
          queued_answer, norm>>

None == "None"
NoTimer == -1
NoFeedback == [mark |-> "", meanings |-> <<>>]
NoBox == [char |-> "", color |-> "", feedback |-> NoFeedback]
NoReport == [shown |-> FALSE, score |-> 0, total |-> 0, percent |-> 0]

SessionKeys ==
  {"deck", "idx", "score", "answer", "response_checked", "correct", "feedback"}

\* the process before the first script run: nothing cached, no session,
\* an empty page
Fresh ==
  /\ cache = <<>>
  /\ selected = <<>>
  /\ keys = {}
  /\ deck = <<>>
  /\ idx = 0
  /\ score = 0
  /\ answer = <<>>
  /\ response_checked = FALSE
  /\ correct = None
  /\ feedback = NoFeedback
  /\ timer_start = NoTimer
  /\ now = 0
  /\ stop_clicked = FALSE
  /\ restart_clicked = FALSE
  /\ widgets = {}
  /\ text_disabled = FALSE
  /\ box = NoBox
  /\ report = NoReport
  /\ error = ""
  /\ prev_deck = bag_of(<<>>)
  /\ queued_answer = <<>>
  /\ norm_out = <<>>
  /\ norm_twice = <<>>

Init ==
  /\ data \in {StoreData(c) : c \in Stores}
  /\ chapters \in CliChoices
  /\ pc = "init"
  /\ norm_in = <<>>
  /\ Fresh

(* ------------------------------ the script ----------------------------- *)
\* f"{score/len(deck)*100:.0f}": the quotient rounded to the nearest integer,
\* ties to even.  (Exact for decks of fewer than 40 cards; from 23/40 on,
\* the float product can fall just below a tie.)
format_percent(s, n) ==
  LET q == (100 * s) \div n
      r == (100 * s) % n
  IN IF 2 * r < n THEN q
     ELSE IF 2 * r > n THEN q + 1
     ELSE IF q % 2 = 0 THEN q ELSE q + 1

\* render(char, color): the glyph box and the feedback container, which
\* shows st.session_state.feedback as it is at the call
render(char, color, fb) == [char |-> char, color |-> color, feedback |-> fb]

\* load_deck under st.cache_data: computed on the first call, replayed afterwards
load_deck(d) ==
  IF cache = <<>>
  THEN /\ d \in build_deck(data, deck_chapters(data, chapters))
       /\ cache' = <<d>>
       /\ selected' = deck_chapters(data, chapters)
  ELSE /\ d = cache[1]
       /\ UNCHANGED <<cache, selected>>

\* the assignments of the session state init section
session_defaults(d) ==
  /\ deck' = d
  /\ idx' = 0
  /\ score' = 0
  /\ answer' = <<>>
  /\ response_checked' = FALSE
  /\ correct' = None
  /\ feedback' = NoFeedback
  /\ timer_start' = NoTimer
  /\ keys' = SessionKeys

\* box = st.empty(); feedback = st.empty(); if "deck" not in st.session_state: ...
SessionInit ==
  /\ pc = "init"
  /\ IF "deck" \notin keys
     THEN \E c \in (IF cache = <<>> THEN build_deck(data, deck_chapters(data, chapters))
                                    ELSE {cache[1]}) :
            /\ load_deck(c)
            /\ \E d \in shuffle(c) : session_defaults(d)
     ELSE UNCHANGED <<cache, selected, session>>
  /\ box' = NoBox
  /\ pc' = "auto"
  /\ UNCHANGED <<data, chapters, now, stop_clicked, restart_clicked,
                 widgets, text_disabled, report, error, prev_deck>>
  /\ UNCHANGED <<queued_answer, norm>>

\* advance_card() without the line that clears the feedback
advance_card_keeps_feedback ==
  /\ idx' = idx + 1
  /\ answer' = <<>>
  /\ response_checked' = FALSE
  /\ feedback' = feedback
  /\ correct' = None
  /\ timer_start' = NoTimer
  /\ keys' = keys \ {"timer_start"}
  /\ UNCHANGED <<deck, score>>

\* advance_card()
advance_card ==
  /\ idx' = idx + 1
  /\ answer' = <<>>
  /\ response_checked' = FALSE
  /\ feedback' = NoFeedback
  /\ correct' = None
  /\ timer_start' = NoTimer
  /\ keys' = keys \ {"timer_start"}
  /\ UNCHANGED <<deck, score>>

\* the timeout test with half the duration
reveal_over_at_half == now - timer_start >= 5

\* elapsed = time.time() - timer_start; elapsed >= 1
reveal_over == now - timer_start >= REVEAL_TICKS

\* the auto-advance section without its call of advance_card()
AutoAdvance_without_advance ==
  /\ pc = "auto"
  /\ IF response_checked /\ "timer_start" \in keys /\ ~ reveal_over
     THEN /\ now' = now + POLL_TICKS
          /\ stop_clicked' = FALSE
          /\ restart_clicked' = FALSE
          /\ pc' = "init"
     ELSE /\ pc' = "stop"
          /\ UNCHANGED <<now, stop_clicked, restart_clicked>>
  /\ UNCHANGED <<loader, session, page, prev_deck>>
  /\ UNCHANGED <<queued_answer, norm>>

\* the auto-advance section
AutoAdvance ==
  /\ pc = "auto"
  /\ IF response_checked /\ "timer_start" \in keys
     THEN IF reveal_over
          THEN /\ advance_card
               /\ pc' = "stop"
               /\ UNCHANGED <<now, stop_clicked, restart_clicked>>
          ELSE \* time.sleep(0.1); st.rerun(): the run ends here, the
               \* buttons' trigger values are reset and the script restarts
               /\ now' = now + POLL_TICKS
               /\ stop_clicked' = FALSE
               /\ restart_clicked' = FALSE
               /\ pc' = "init"
               /\ UNCHANGED session
     ELSE /\ pc' = "stop"
          /\ UNCHANGED <<session, now, stop_clicked, restart_clicked>>
  /\ UNCHANGED <<loader, page, prev_deck>>
  /\ UNCHANGED <<queued_answer, norm>>

\* the Stop button's assignment with an off-by-one
stop_position_past_end == Len(deck) + 1

\* the value the Stop button assigns to idx: len(st.session_state.deck)
stop_position == Len(deck)

\* the Stop button section
StopButton ==
  /\ pc = "stop"
  /\ widgets' = widgets \cup {"Stop"}
  /\ IF stop_clicked THEN idx' = stop_position ELSE idx' = idx
  /\ stop_clicked' = FALSE
  /\ pc' = "end"
  /\ UNCHANGED <<loader, keys, deck, score, answer, response_checked, correct,
                 feedback, timer_start, now, restart_clicked, text_disabled,
                 box, report, error, prev_deck>>
  /\ UNCHANGED <<queued_answer, norm>>

\* for key in list(st.session_state.keys()): del st.session_state[key]
delete_all_keys ==
  /\ keys' = {}
  /\ deck' = <<>>
  /\ idx' = 0
  /\ score' = 0
  /\ answer' = <<>>
  /\ response_checked' = FALSE
  /\ correct' = None
  /\ feedback' = NoFeedback
  /\ timer_start' = NoTimer

\* the End quiz test with an off-by-one
quiz_finished_one_early == idx + 1 >= Len(deck)

\* if st.session_state.idx >= len(st.session_state.deck)
quiz_finished == idx >= Len(deck)

\* the End quiz section
EndQuiz ==
  /\ pc = "end"
  /\ IF quiz_finished
     THEN IF Len(deck) = 0
          THEN \* score/len(deck) raises ZeroDivisionError: the run ends
               /\ error' = "ZeroDivisionError"
               /\ report' = NoReport
               /\ widgets' = {"Stop"}
               /\ pc' = "idle"
               /\ UNCHANGED <<session, prev_deck>>
          ELSE /\ error' = ""
               /\ report' = [shown |-> TRUE, score |-> score, total |-> Len(deck),
                              percent |-> format_percent(score, Len(deck))]
               /\ widgets' = {"Stop", "Restart"}
               /\ IF restart_clicked
                  THEN delete_all_keys /\ prev_deck' = bag_of(deck)
                  ELSE UNCHANGED <<session, prev_deck>>
               /\ pc' = "idle"      \* st.stop()
     ELSE /\ pc' = "input"
          /\ error' = ""
          /\ report' = NoReport
          /\ UNCHANGED <<session, widgets, prev_deck>>
  /\ restart_clicked' = IF pc' = "idle" THEN FALSE ELSE restart_clicked
  /\ UNCHANGED <<loader, now, stop_clicked, text_disabled, box>>
  /\ UNCHANGED <<queued_answer, norm>>

\* card = deck[idx]; render the glyph if not checked; st.text_input(...)
ShowCard ==
  /\ pc = "input"
  /\ box' = IF ~ response_checked THEN render(deck[idx + 1].hanzi, WHITE, feedback) ELSE box
  /\ widgets' = {"Stop", "answer"}
  /\ text_disabled' = response_checked
  /\ restart_clicked' = FALSE
  /\ pc' = "idle"
  /\ UNCHANGED <<loader, session, now, stop_clicked, report, error, prev_deck>>
  /\ UNCHANGED <<queued_answer, norm>>

(* --------------------------- events and callback ----------------------- *)
\* evaluate_answer() with the score incremented on either branch
evaluate_answer_always_scores ==
  LET card == deck[idx + 1]
      ok == is_correct(answer', card)
      fb == [mark |-> IF ok THEN "Correct" ELSE "Wrong", meanings |-> card.english]
  IN /\ response_checked' = TRUE
     /\ timer_start' = now
     /\ keys' = keys \cup {"timer_start"}
     /\ correct' = IF ok THEN "True" ELSE "False"
     /\ score' = score + 1
     /\ feedback' = fb
     /\ box' = render(card.hanzi, IF ok THEN BRIGHT_GREEN ELSE BRIGHT_RED, fb)
     /\ UNCHANGED <<deck, idx>>

\* evaluate_answer() up to render(): card = deck[idx] is deck[idx + 1] here
evaluate_answer ==
  LET card == deck[idx + 1]
      ok == is_correct(answer', card)
      fb == [mark |-> IF ok THEN "Correct" ELSE "Wrong", meanings |-> card.english]
  IN /\ response_checked' = TRUE
     /\ timer_start' = now
     /\ keys' = keys \cup {"timer_start"}
     /\ correct' = IF ok THEN "True" ELSE "False"
     /\ score' = IF ok THEN score + 1 ELSE score
     /\ feedback' = fb
     /\ box' = render(card.hanzi, IF ok THEN BRIGHT_GREEN ELSE BRIGHT_RED, fb)
     /\ UNCHANGED <<deck, idx>>

\* The user commits a new value in the enabled text input: the widget
\* value is stored under key "answer" and on_change=evaluate_answer runs.
SubmitAnswer ==
  /\ pc = "idle"
  /\ "answer" \in widgets
  /\ ~ text_disabled
  /\ now + FLASH_TICKS + SleepSlack <= MaxTime
  /\ \E a \in Answers :
       /\ a # answer
       /\ answer' = a
       /\ evaluate_answer
  /\ pc' = "callback_sleep"
  /\ UNCHANGED <<loader, now, stop_clicked, restart_clicked, widgets,
                 text_disabled, report, error, prev_deck>>
  /\ UNCHANGED <<queued_answer, norm>>

\* the end of evaluate_answer with a sleep of 0.4 s
CallbackSleep_for_0_4s ==
  /\ pc = "callback_sleep"
  /\ now' = now + 4
  /\ pc' = IF queued_answer # <<>> THEN "callback" ELSE "init"
  /\ UNCHANGED <<loader, session, stop_clicked, restart_clicked, page, prev_deck>>
  /\ UNCHANGED <<queued_answer, norm>>

\* the end of evaluate_answer: time.sleep(1.4) on either branch, then the
\* script runs from the top
CallbackSleep ==
  /\ pc = "callback_sleep"
  /\ \E d \in FLASH_TICKS .. (FLASH_TICKS + SleepSlack) : now' = now + d
  /\ pc' = IF queued_answer # <<>> THEN "callback" ELSE "init"
  /\ UNCHANGED <<loader, session, stop_clicked, restart_clicked, page, prev_deck>>
  /\ UNCHANGED <<queued_answer, norm>>

\* The user edits the text input and commits again while the callback
\* sleeps: the page still shows the input of the previous run, which was
\* rendered enabled.  The event waits for the script thread.
CommitDuringFlash ==
  /\ pc = "callback_sleep"
  /\ "answer" \in widgets
  /\ ~ text_disabled
  /\ queued_answer = <<>>
  /\ now + 2 * (FLASH_TICKS + SleepSlack) <= MaxTime
  /\ \E a \in Answers : a # answer /\ queued_answer' = a
  /\ UNCHANGED <<loader, session, now, pc, stop_clicked, restart_clicked, page,
                 prev_deck, norm>>

\* The run that follows the callback yields to the waiting event at its
\* first command (box = st.empty()): the script restarts with the new
\* widget value and on_change=evaluate_answer runs again, before the
\* auto-advance section is reached.
RerunCallback ==
  /\ pc = "callback"
  /\ answer' = queued_answer
  /\ queued_answer' = <<>>
  /\ evaluate_answer
  /\ pc' = "callback_sleep"
  /\ UNCHANGED <<loader, now, stop_clicked, restart_clicked, widgets,
                 text_disabled, report, error, prev_deck, norm>>

\* The user clicks Stop.  With the script idle a run starts at once; while
\* the callback sleeps the click waits for the script thread, and is
\* handed to the button when the script reaches it.
ClickStop ==
  /\ pc \in {"idle", "callback_sleep"}
  /\ "Stop" \in widgets
  /\ ~ stop_clicked
  /\ stop_clicked' = TRUE
  /\ pc' = IF pc = "idle" THEN "init" ELSE pc
  /\ UNCHANGED <<loader, session, now, restart_clicked, page, prev_deck>>
  /\ UNCHANGED <<queued_answer, norm>>

\* The user clicks Restart, which is on the page after a finished run.
ClickRestart ==
  /\ pc = "idle"
  /\ "Restart" \in widgets
  /\ restart_clicked' = TRUE
  /\ pc' = "init"
  /\ UNCHANGED <<loader, session, now, stop_clicked, page, prev_deck>>
  /\ UNCHANGED <<queued_answer, norm>>

Next ==
  \/ SessionInit
  \/ AutoAdvance
  \/ StopButton
  \/ EndQuiz
  \/ ShowCard
  \/ SubmitAnswer
  \/ CallbackSleep
  \/ ClickStop
  \/ ClickRestart
  \/ CommitDuringFlash
  \/ RerunCallback

Spec == Init /\ [][Next]_vars

(* ------------------------- the script thread runs ---------------------- *)
\* Streamlit runs the script, and a callback's time.sleep returns: every
\* step of a script run that is enabled is eventually taken.  The user's
\* events (SubmitAnswer, CommitDuringFlash, ClickStop, ClickRestart) have
\* no such guarantee.
ScriptFairness ==
  /\ WF_vars(SessionInit)
  /\ WF_vars(AutoAdvance)
  /\ WF_vars(StopButton)
  /\ WF_vars(EndQuiz)
  /\ WF_vars(ShowCard)
  /\ WF_vars(CallbackSleep)
  /\ WF_vars(RerunCallback)

\* How the deck was selected plays no part in the progress of a reveal:
\* the fair runs start without --chapters, on the whole store.
FairInit == Init /\ chapters = <<>>

FairSpec == FairInit /\ [][Next]_vars /\ ScriptFairness

(* ---------------------- a system clock that is set back ---------------- *)
\* time.time() is the wall clock: if the system clock is set back while
\* evaluate_answer sleeps, the script finds less than the reveal duration
\* elapsed when the callback returns, and polls.
CallbackSleepClockSetBack ==
  /\ pc = "callback_sleep"
  /\ \E d \in (REVEAL_TICKS - MaxPolls) .. (REVEAL_TICKS - 1) : now' = now + d
  /\ pc' = IF queued_answer # <<>> THEN "callback" ELSE "init"
  /\ UNCHANGED <<loader, session, stop_clicked, restart_clicked, page, prev_deck>>
  /\ UNCHANGED <<queued_answer, norm>>

WallClockNext == Next \/ CallbackSleepClockSetBack

WallClockSpec == Init /\ [][WallClockNext]_vars

(* --------------------------- normalize on its own ---------------------- *)
\* characters of the strings handed to normalize: letters of both cases,
\* a space and a tab
NormChars == {"d", "D", "o", " ", "\t"}

\* every str of at most MaxLen characters
NormStrings == UNION { [1..n -> NormChars] : n \in 0..MaxLen }

NormInit ==
  /\ data = StoreData(<<>>)
  /\ chapters = <<>>
  /\ pc = "norm_call"
  /\ norm_in \in NormStrings
  /\ Fresh

\* norm_out = normalize(norm_in)
NormalizeOnce ==
  /\ pc = "norm_call"
  /\ norm_out' = normalize(norm_in)
  /\ pc' = "norm_done"
  /\ UNCHANGED <<loader, session, now, stop_clicked, restart_clicked, page,
                 prev_deck, queued_answer, norm_in, norm_twice>>

\* norm_twice = normalize(norm_out)
NormalizeAgain ==
  /\ pc = "norm_done"
  /\ norm_twice' = normalize(norm_out)
  /\ pc' = "norm_again"
  /\ UNCHANGED <<loader, session, now, stop_clicked, restart_clicked, page,
                 prev_deck, queued_answer, norm_in, norm_out>>

NormNext == NormalizeOnce \/ NormalizeAgain

NormSpec == NormInit /\ [][NormNext]_vars

(* ------------------------------ properties ----------------------------- *)
\* a Session exists: the init section has run and Restart has not deleted it
HasSession == "deck" \in keys

\* C1: in every reachable state of a session the position satisfies
\* 0 <= idx <= len(deck).
C1_PositionInRange == HasSession => (0 <= idx /\ idx <= Len(deck))

\* C1 witness: a two-card deck was answered to its end, the second Advance
\* brought idx to len(deck).
C1_Witness ==
  HasSession /\ Len(deck) = 2 /\ idx = 2 /\ score = 2 /\ pc = "stop"

\* C2: in every reachable state, Revealing included,
\* 0 <= score <= idx.
C2_ScoreAtMostPosition == HasSession => (0 <= score /\ score <= idx)

\* C3: a Submit taken with checked = false sets checked, sets the judgment
\* to isCorrect(answer, accepted meanings of the active card), records the
\* reveal start, adds 1 to the score iff the answer is correct and leaves
\* the position unchanged.
C3_SubmitEffect ==
  [][ (pc = "idle" /\ pc' = "callback_sleep") =>
        LET card == deck[idx + 1]
            isCorrect == \E i \in 1..Len(card.english) :
                            normalize(answer') = normalize(card.english[i])
        IN /\ ~ response_checked
           /\ response_checked'
           /\ correct' = (IF isCorrect THEN "True" ELSE "False")
           /\ "timer_start" \in keys' /\ timer_start' = now
           /\ score' = (IF isCorrect THEN score + 1 ELSE score)
           /\ idx' = idx ]_vars

\* C4: every Advance adds exactly 1 to the position, empties the answer,
\* clears checked, feedback, judgment and reveal start, and leaves score
\* and deck unchanged; the End quiz section then shows the finished report
\* exactly when the position equals len(deck).
C4_AdvanceEffect ==
  [][ /\ (pc = "auto" /\ response_checked /\ pc' = "stop") =>
           /\ idx' = idx + 1
           /\ answer' = <<>>
           /\ ~ response_checked'
           /\ feedback' = NoFeedback
           /\ correct' = None
           /\ "timer_start" \notin keys'
           /\ score' = score
           /\ deck' = deck
      /\ (pc = "end" /\ Len(deck) > 0) =>
           /\ report'.shown <=> (idx = Len(deck))
           /\ (pc' = "idle") <=> (idx = Len(deck)) ]_vars

\* C4 witness: the script is past an Advance that moved to the second card
\* of a two-card deck after a wrong answer.
C4_Witness ==
  /\ HasSession /\ pc = "stop" /\ Len(deck) = 2 /\ idx = 1 /\ score = 0
  /\ ~ response_checked /\ feedback = NoFeedback /\ now >= FLASH_TICKS

\* C5: a Stop triggered in any non-Finished state, Revealing included, takes
\* effect at once: from the click until idx = len(deck) no time passes, no
\* Advance moves the position, and the click is not dropped.
C5_StopImmediate ==
  [][ stop_clicked =>
        /\ now' = now
        /\ idx' = idx \/ idx' = Len(deck')
        /\ ~ stop_clicked' => idx' = Len(deck') ]_vars

\* C6: Restart is offered only when the session is finished (or already
\* deleted by a Restart), only a finished session is deleted, and the next
\* session starts with idx = 0, score = 0, checked = false and a deck with
\* the same multiset of cards as the deleted session's deck.
C6_Restart ==
  [][ /\ (pc = "idle" /\ "Restart" \in widgets /\ HasSession) => idx = Len(deck)
      /\ (HasSession /\ ~ HasSession') => (idx = Len(deck) /\ restart_clicked)
      /\ (~ HasSession /\ HasSession') =>
           /\ idx' = 0 /\ score' = 0 /\ ~ response_checked'
           /\ (cache # <<>>) => bag_of(deck') = prev_deck ]_vars

\* C6 witness: a second session has just been initialised after a Restart.
C6_Witness ==
  /\ HasSession /\ pc = "auto" /\ idx = 0 /\ score = 0
  /\ Len(deck) = 2 /\ bag_of(deck) = prev_deck /\ now >= 2 * FLASH_TICKS

\* C7: whenever the session is finished, by answering every card or by
\* Stop, the report shows score/len(deck) and the percentage
\* round(score/len(deck)*100), for every deck a session can start with.
C7_Report ==
  (pc = "idle" /\ HasSession /\ idx = Len(deck)) =>
    /\ report.shown
    /\ report.score = score
    /\ report.total = Len(deck)
    /\ 2 * (100 * score - report.percent * Len(deck)) <= Len(deck)
    /\ 2 * (report.percent * Len(deck) - 100 * score) <= Len(deck)

\* C8: the built deck has as many cards as the selected chapters hold, each
\* selected chapter counted once, and the same multiset of cards; the
\* shuffles change only the order.
C8_DeckIsSelectedChaptersOnce ==
  cache # <<>> =>
    LET chosen == SeqToSet(selected)
        once == extend_all(data, sorted_by(chosen, [k \in chosen |-> chapter_num(k)]))
    IN /\ Len(cache[1]) = Len(once)
       /\ bag_of(cache[1]) = bag_of(once)
       /\ HasSession => bag_of(deck) = bag_of(once)

\* C9: chapter numbers that are not in the store are ignored; with no
\* existing chapter selected the deck is built from every chapter, taken in
\* ascending numeric order; otherwise from exactly the existing selected
\* chapters.
C9_ChapterSelection ==
  cache # <<>> =>
    LET existing == {chapter_key(chapters[i]) : i \in 1..Len(chapters)} \cap DOMAIN data
        cards == UNION {SeqToSet(data[k]) : k \in SeqToSet(selected)}
    IN /\ existing = {} =>
            /\ SeqToSet(selected) = DOMAIN data
            /\ \A i, j \in 1..Len(selected) :
                 i < j => chapter_num(selected[i]) < chapter_num(selected[j])
       /\ existing # {} => SeqToSet(selected) = existing
       /\ SeqToSet(cache[1]) = cards
       /\ HasSession => SeqToSet(deck) = cards

\* C9 witness: only the unknown chapter 3 was selected and the deck holds
\* the cards of both chapters of the store.
C9_Witness ==
  /\ cache # <<>> /\ Len(chapters) > 0
  /\ \A i \in 1..Len(chapters) : chapters[i] = 3
  /\ Len(selected) = 2 /\ HasSession /\ Len(deck) = 2

\* C10: with an empty store, or no chapter resolving to a card, deck
\* building fails with EmptyDeckError and no session exists with zero cards.
C10_NoEmptySession ==
  /\ HasSession => Len(deck) > 0
  /\ (cache # <<>> /\ cache[1] = <<>>) => error = "EmptyDeckError"

\* C11: for every typed answer and every card, whose meanings are a list
\* of strings or a single string, the judgment made on Submit is correct
\* iff normalize(answer) equals normalize(m) for an accepted meaning m.
C11_JudgmentIsExactMatch ==
  (HasSession /\ response_checked) =>
    LET accepted == deck[idx + 1].english
    IN (correct = "True") <=>
         (\E i \in 1..Len(accepted) : normalize(answer) = normalize(accepted[i]))

\* C12: for every string s, normalize(s) holds no whitespace character of
\* any kind and no upper-case letter, and is s lower-cased with every
\* whitespace character removed.
C12_NormalizeStripsWhitespace ==
  (pc = "norm_done") =>
    /\ \A i \in 1..Len(norm_out) : norm_out[i] \notin {" ", "\t", "D"}
    /\ norm_out = remove_char(remove_char(lower(norm_in), " "), "\t")

\* C13: normalize is total and idempotent:
\* normalize(normalize(s)) = normalize(s) for every string s.
C13_NormalizeIdempotent ==
  /\ (pc \in {"norm_done", "norm_again"}) => norm_out \in Seq(NormChars)
  /\ (pc = "norm_again") => norm_twice = norm_out

\* C13 witness: normalize was applied twice to "D o", which it changes.
C13_Witness ==
  /\ pc = "norm_again" /\ norm_in = <<"D", " ", "o">>
  /\ norm_out = <<"d", "o">> /\ norm_twice = <<"d", "o">>

\* C14: Submit is processed only while checked = false: once a card is
\* checked no further committed value re-evaluates it before the next
\* Advance, so the score grows by at most 1 per card and never exceeds
\* len(deck).
C14_NoReevaluation ==
  /\ [](HasSession => score <= Len(deck))
  /\ [][ /\ score' > score => (~ response_checked /\ score' = score + 1)
         /\ (response_checked /\ response_checked') =>
               UNCHANGED <<score, correct, feedback, timer_start, answer>> ]_vars

\* C15: a reveal-timeout check made while checked = true with less than
\* the reveal duration elapsed changes no Session field and only asks for
\* another run; the Advance by timeout is taken only once the time elapsed
\* since timer_start is at least the reveal duration.
C15_PollChangesNothing ==
  [][ /\ (pc = "auto" /\ response_checked /\ "timer_start" \in keys
             /\ now - timer_start < REVEAL_TICKS) =>
           (UNCHANGED session /\ pc' = "init" /\ now' = now + POLL_TICKS)
      /\ (pc = "auto" /\ response_checked /\ ~ response_checked') =>
           now - timer_start >= REVEAL_TICKS ]_vars

\* C15 witness: the clock was set back during the flash and the script has
\* polled until exactly the reveal duration has elapsed.
C15_Witness ==
  /\ HasSession /\ response_checked /\ pc = "init"
  /\ now - timer_start = REVEAL_TICKS

C17_RenderMatchesState ==
  (HasSession /\ "answer" \in widgets /\ pc \in {"idle", "callback_sleep"}) =>
    IF response_checked
    THEN /\ box.color = (IF correct = "True" THEN BRIGHT_GREEN ELSE BRIGHT_RED)
         /\ box.feedback = feedback
         /\ feedback # NoFeedback
         /\ text_disabled
    ELSE /\ box.color = WHITE
         /\ ~ text_disabled

\* C18: in every state of a session timer_start is present exactly when
\* response_checked is true, and while response_checked is false the
\* feedback is empty and correct is None.
C18_RevealFieldsFollowChecked ==
  HasSession =>
    /\ ("timer_start" \in keys) <=> response_checked
    /\ response_checked => timer_start # NoTimer
    /\ ~ response_checked =>
         (feedback = NoFeedback /\ correct = None /\ timer_start = NoTimer)

\* C18 witness: the first card of a two-card deck was answered correctly,
\* revealed and advanced; the second card waits unchecked.
C18_Witness ==
  /\ HasSession /\ Len(deck) = 2 /\ idx = 1 /\ score = 1 /\ pc = "idle"
  /\ ~ response_checked /\ "timer_start" \notin keys /\ feedback = NoFeedback

\* C19: once idx = len(deck), no step other than the Restart that deletes
\* the session changes idx, score or deck.
C19_FinishedIsAbsorbing ==
  [][ (HasSession /\ idx = Len(deck) /\ "deck" \in keys') =>
        UNCHANGED <<idx, score, deck>> ]_vars

\* C19 witness: Stop was clicked on the finished page of a non-empty deck
\* and the script is about to run.
C19_Witness ==
  /\ HasSession /\ Len(deck) > 0 /\ idx = Len(deck) /\ ~ response_checked
  /\ stop_clicked /\ pc = "init"

====
